---------------------------- MODULE Spec2Model ----------------------------
(***************************************************************************)
(* A model of dust, a peer-to-peer message-flooding node.                  *)
(*                                                                         *)
(*   - the frame codec of Msg (try_from a String, try_from a byte array,   *)
(*     into_bytes), on byte sequences;                                     *)
(*   - the bounded queue used as the dedup cache (push, contains);         *)
(*   - the event loop of run: accept, command, receive_msgs (process_msg   *)
(*     on every stream, then propagate of every new message).              *)
(*                                                                         *)
(* Six specifications share the module.  Spec is the event loop with       *)
(* peers coming and going, every kind of read, and everything that may     *)
(* fail: the bind of the listener, the threads of listen and read_input,   *)
(* the connections, which peers close and reset.  SpecDedup is the event   *)
(* loop with the peers connected first, nothing failing, and enough        *)
(* messages to fill the dedup cache and evict from it; SpecCodec applies   *)
(* the codec to inputs drawn in its initial states; SpecQueue applies push *)
(* and contains to a queue of some capacity; SpecStream is one connection  *)
(* whose reads return any number of the bytes written; SpecNet is a line   *)
(* or a ring of nodes, each running the loop.  Each specification pins the *)
(* variables of the others.                                                *)
(***************************************************************************)
EXTENDS Integers, Sequences, FiniteSets, TLC

VARIABLES
    \* ---- event loop (run) ----
    pc,         \* position of run: "start", "accept", "cmd", "recv"; "panicked", "exited"
    in_comms,   \* channel from the listener thread: accepted sockets not yet received
    streams,    \* run's Vec<TcpStream>
    seen,       \* run's Queue<Msg>
    nconn,      \* sockets created so far (identity of a TcpStream)
    nmsg,       \* distinct message ids originated so far, anywhere in the network
    npush,      \* pushes made to seen so far
    everSeen,   \* history: every Msg ever pushed to seen
    ri,         \* receive_msgs: index of the next stream process_msg reads
    retained,   \* receive_msgs: the streams retained so far, then the fold's accumulator
    propagees,  \* receive_msgs: the (message, origin) pairs still to propagate
    lastRead,   \* log of the last step: the frame process_msg decoded, if any
    lastCall,   \* log of the last step: the broadcast or propagate call, if any
    lastStep,   \* log of the last step of run: its name and the state it started in
    closed,     \* history: the sockets on which a read has returned end-of-stream
    accepted,   \* history: the socket received from in_comms in this iteration, if any
    listening,  \* listen's thread runs (the sender of in_comms is alive)
    cmds_open,  \* read_input's thread runs (the sender of cmds is alive)
    nfault,     \* the number of connections a peer has closed or reset
    env,        \* what the environment of the run may do (fixed by the initial state)
    \* ---- codec ----
    c_pc, c_in, c_msg, c_bytes, c_back,
    \* ---- queue ----
    q_queue, q_pushed, q_evicted, q_last,
    \* ---- one connection as a byte stream ----
    w_pc,       \* "idle", "run" or "panicked"
    w_wire,     \* the bytes the peer has written that the node has not read
    w_sent,     \* history: the messages the peer encoded and wrote
    w_decoded,  \* history: the messages the node decoded from its reads
    \* ---- a network of nodes ----
    n_pc,       \* per node: position of its loop: "cmd", "bcast" (the broadcast
                \* of a command), "recv", "prop" (the broadcast of propagate);
                \* "panicked"
    n_w,        \* per node, broadcast: the message and the index of the next write
    n_streams,  \* per node: its peer set
    n_ri,       \* per node, receive_msgs: index of the next stream to read
    n_retained, \* per node, receive_msgs: the streams retained so far
    n_propagees, \* per node, receive_msgs: the pairs still to propagate
    n_seen,     \* per node: its dedup cache
    n_chan,     \* per ordered pair of nodes: the frames written and not read
    n_printed,  \* history, per node: the messages it printed
    n_orig      \* history, per node: the messages its Broadcast commands created

loopVars  == <<pc, in_comms, streams, seen, nconn, nmsg, npush, everSeen,
               ri, retained, propagees, lastRead, lastCall,
               lastStep, closed, accepted, listening, cmds_open, nfault, env>>
codecVars == <<c_pc, c_in, c_msg, c_bytes, c_back>>
queueVars == <<q_queue, q_pushed, q_evicted, q_last>>
streamVars == <<w_pc, w_wire, w_sent, w_decoded>>
netVars   == <<n_pc, n_w, n_streams, n_ri, n_retained, n_propagees,
               n_seen, n_chan, n_printed, n_orig>>
vars      == <<loopVars, codecVars, queueVars, streamVars, netVars>>

-----------------------------------------------------------------------------
(* Program constants                                                       *)

UUID_SIZE == 16
SEP_SIZE == 1
CAPACITY == 128
\* run: Queue::new(16)
SEEN_SIZE == 16

(* Bounds of the model                                                     *)

\* longest text handed to try_from(String)
MaxTextLen == 113
\* Spec: sockets ever created (accepted or connected)
MaxConns == 2
\* Spec: connections that their peers end in a run
MaxPeerEnds == 1
\* Spec, with one socket more than MaxConns: distinct message ids originated
WideMsgs == 1
\* Spec: distinct message ids originated; seen takes one push more, for the
\* message decoded from a block that is not the frame of one of them
MaxMsgs == 2
\* SpecDedup: sockets ever created
DedupConns == 2
\* SpecDedup: distinct message ids originated beyond SEEN_SIZE
DedupExtraMsgs == 1
\* SpecQueue: small capacities tried besides SEEN_SIZE
MaxSmallCap == 3
\* SpecQueue: pushes beyond the capacity
ExtraPushes == 2
\* SpecQueue: pushes of an item pushed before
MaxDups == 2
\* SpecStream: frames the peer writes, and reads the node makes
MaxFrames == 2
MaxReads == 3
\* SpecNet: nodes of the network, and broadcasts made in it
NumNodes == 3
MaxNetMsgs == 1

-----------------------------------------------------------------------------
(* Bytes, texts and ids                                                    *)

Byte == 0..255

Min(a, b) == IF a <= b THEN a ELSE b

\* a sequence of n bytes b
Fill(n, b) == <<>> \o [i \in 1..n |-> b]

\* s with the byte at (1-based) position p replaced by b
WithByte(s, p, b) == SubSeq(s, 1, p - 1) \o <<b>> \o SubSeq(s, p + 1, Len(s))

\* A version-4 uuid: 16 bytes, the version nibble in byte 6 and the variant
\* bits in byte 8 (0-based); every other byte is random.  b0 is its first
\* byte and n tells ids apart.
MkUuid(b0, n) ==
    <<b0, n, 0, 0, 0, 0, 64 + (n % 16), 0, 128, 0, 0, 0, 0, 0, 0, 255 - n>>

\* first bytes a random uuid is drawn with
FirstBytes == {0, 1, 255}

\* u8 bitwise not
BitNot(b) == 255 - b

-----------------------------------------------------------------------------
(* Results: Ok(value), Err(error) or a panic of the thread                 *)

NoMsg == [text |-> <<>>, uuid |-> <<>>]

Ok(m)      == [tag |-> "Ok",    msg |-> m,     bytes |-> <<>>, why |-> ""]
OkBytes(b) == [tag |-> "Ok",    msg |-> NoMsg, bytes |-> b,    why |-> ""]
Err(e)     == [tag |-> "Err",   msg |-> NoMsg, bytes |-> <<>>, why |-> e]
Panic(w)   == [tag |-> "Panic", msg |-> NoMsg, bytes |-> <<>>, why |-> w]
NoResult   == [tag |-> "None",  msg |-> NoMsg, bytes |-> <<>>, why |-> ""]

-----------------------------------------------------------------------------
(* String::from_utf8_lossy                                                 *)

\* safe_get: the byte at 0-based index i, 0 past the end
SafeGet(s, i) == IF i < Len(s) THEN s[i + 1] ELSE 0

IsCont(b) == b \in 128..191

Utf8CharWidth(b) ==
    CASE b \in 0..127   -> 1
      [] b \in 194..223 -> 2
      [] b \in 224..239 -> 3
      [] b \in 240..244 -> 4
      [] OTHER          -> 0

\* second byte allowed after the lead byte of a 3-byte sequence
Second3Ok(b, c) ==
    \/ b = 224 /\ c \in 160..191
    \/ b \in 225..236 /\ c \in 128..191
    \/ b = 237 /\ c \in 128..159
    \/ b \in 238..239 /\ c \in 128..191

\* second byte allowed after the lead byte of a 4-byte sequence
Second4Ok(b, c) ==
    \/ b = 240 /\ c \in 144..191
    \/ b \in 241..243 /\ c \in 128..191
    \/ b = 244 /\ c \in 128..143

\* The character or the maximal invalid sequence starting at 0-based index i:
\* whether it is valid, and the index after it.
Utf8Step(s, i) ==
    LET b == s[i + 1]
        w == Utf8CharWidth(b)
    IN  CASE w = 1 -> [ok |-> TRUE, next |-> i + 1]
          [] w = 2 -> IF IsCont(SafeGet(s, i + 1))
                      THEN [ok |-> TRUE, next |-> i + 2]
                      ELSE [ok |-> FALSE, next |-> i + 1]
          [] w = 3 -> IF ~Second3Ok(b, SafeGet(s, i + 1))
                      THEN [ok |-> FALSE, next |-> i + 1]
                      ELSE IF ~IsCont(SafeGet(s, i + 2))
                      THEN [ok |-> FALSE, next |-> i + 2]
                      ELSE [ok |-> TRUE, next |-> i + 3]
          [] w = 4 -> IF ~Second4Ok(b, SafeGet(s, i + 1))
                      THEN [ok |-> FALSE, next |-> i + 1]
                      ELSE IF ~IsCont(SafeGet(s, i + 2))
                      THEN [ok |-> FALSE, next |-> i + 2]
                      ELSE IF ~IsCont(SafeGet(s, i + 3))
                      THEN [ok |-> FALSE, next |-> i + 3]
                      ELSE [ok |-> TRUE, next |-> i + 4]
          [] OTHER -> [ok |-> FALSE, next |-> i + 1]

\* U+FFFD in UTF-8
REPLACEMENT == <<239, 191, 189>>

\* Whether the scan of Utf8Chunks begins a character or an invalid sequence
\* at 0-based index j.  A byte that is no continuation byte always begins
\* one, since a sequence only ever takes continuation bytes after its lead;
\* a continuation byte begins one (invalid, on its own) unless the sequence
\* of the nearest lead before it reaches over it.
IsChunkStart(s, j) ==
    LET leads == {i \in 0..(j - 1) : ~IsCont(s[i + 1])}
        lead == CHOOSE i \in leads : \A k \in leads : k <= i
    IN  \/ ~IsCont(s[j + 1])
        \/ leads = {}
        \/ Utf8Step(s, lead).next <= j

\* what from_utf8_lossy pushes for the bytes from index j on: the character,
\* or one U+FFFD for a maximal invalid sequence
Utf8Piece(s, j) ==
    IF ~IsChunkStart(s, j) THEN <<>>
    ELSE LET st == Utf8Step(s, j)
         IN  IF st.ok THEN SubSeq(s, j + 1, st.next) ELSE REPLACEMENT

\* the pieces of the indices lo..hi, concatenated
RECURSIVE Utf8Pieces(_, _, _)
Utf8Pieces(s, lo, hi) ==
    IF lo > hi THEN <<>>
    ELSE IF lo = hi THEN Utf8Piece(s, lo)
    ELSE LET mid == (lo + hi) \div 2
         IN  Utf8Pieces(s, lo, mid) \o Utf8Pieces(s, mid + 1, hi)

from_utf8_lossy(s) == Utf8Pieces(s, 0, Len(s) - 1)

-----------------------------------------------------------------------------
(* Msg and its codec                                                       *)

\* impl TryFrom<String> for Msg.  u1 and u2 are the two results of
\* Uuid::new_v4(): the assertion looks at the first, the message gets the
\* second.  !b is the bitwise complement of a u8, so the assertion fails
\* when the first byte is 0xFF.
try_from_String(value, u1, u2) ==
    LET within_capacity == Len(value) + SEP_SIZE + UUID_SIZE <= CAPACITY
    IN  IF ~(BitNot(u1[1]) # 0)
        THEN Panic("Uuid started with 0!")
        ELSE IF within_capacity
             THEN Ok([text |-> value, uuid |-> u2])
             ELSE Err("TryFromStringToMsgError")

\* 0-based index of the first 0 byte of value; Len(value) when there is none
Position0(value) ==
    IF \E i \in 1..Len(value) : value[i] = 0
    THEN (CHOOSE i \in 1..Len(value) :
              value[i] = 0 /\ \A j \in 1..(i - 1) : value[j] # 0) - 1
    ELSE Len(value)

\* impl TryFrom<[u8; CAPACITY]> for Msg.  The slice of the id panics when it
\* ends past the array; Uuid::from_slice accepts any 16 bytes.
try_from_array(value) ==
    LET sep == Position0(value)
    IN  IF sep = Len(value)
        THEN Err("MissingSep")
        ELSE IF sep + SEP_SIZE + UUID_SIZE > Len(value)
             THEN Panic("range end index out of range for slice")
             ELSE Ok([text |-> from_utf8_lossy(SubSeq(value, 1, sep)),
                      uuid |-> SubSeq(value, sep + SEP_SIZE + 1,
                                      sep + SEP_SIZE + UUID_SIZE)])

\* Msg::into_bytes: an array of CAPACITY zeroes, the text written from index
\* 0 and the id from index length + SEP_SIZE.  bytes[i] panics for an index
\* i >= CAPACITY.
into_bytes(msg) ==
    LET length == Len(msg.text)
    IN  IF \/ \E i \in 0..(length - 1) : i >= CAPACITY
           \/ \E i \in 0..(UUID_SIZE - 1) : i + length + SEP_SIZE >= CAPACITY
        THEN Panic("index out of bounds")
        ELSE OkBytes(msg.text \o Fill(SEP_SIZE, 0) \o msg.uuid
                         \o Fill(CAPACITY - length - SEP_SIZE - UUID_SIZE, 0))

-----------------------------------------------------------------------------
(* Queue<T>                                                                *)

\* Option<T>: None is <<>>, Some(x) is <<x>>
None == <<>>
Some(x) == <<x>>

\* Queue::new
QueueNew(size) == [size |-> size, elements |-> <<>>]

\* Queue::push with the comparison off by one: evicts one push too early
PushEarly(q, item) ==
    LET pushed == Append(q.elements, item)
    IN  IF Len(pushed) >= q.size
        THEN [queue |-> [q EXCEPT !.elements = Tail(pushed)], ret |-> Some(Head(pushed))]
        ELSE [queue |-> [q EXCEPT !.elements = pushed], ret |-> None]

\* Queue::push that never evicts
PushNoEvict(q, item) ==
    [queue |-> [q EXCEPT !.elements = Append(q.elements, item)], ret |-> None]

\* Queue::push that evicts at the back (pop_back for pop_front)
PushPopBack(q, item) ==
    LET pushed == Append(q.elements, item)
    IN  IF Len(pushed) > q.size
        THEN [queue |-> [q EXCEPT !.elements = SubSeq(pushed, 1, Len(pushed) - 1)],
              ret |-> Some(pushed[Len(pushed)])]
        ELSE [queue |-> [q EXCEPT !.elements = pushed], ret |-> None]

\* Queue::push that skips an item the queue holds
PushUnique(q, item) ==
    IF \E i \in 1..Len(q.elements) : q.elements[i] = item
    THEN [queue |-> q, ret |-> None]
    ELSE LET pushed == Append(q.elements, item)
         IN  IF Len(pushed) > q.size
             THEN [queue |-> [q EXCEPT !.elements = Tail(pushed)],
                   ret |-> Some(Head(pushed))]
             ELSE [queue |-> [q EXCEPT !.elements = pushed], ret |-> None]

\* Queue::push: the queue after the call and the value returned
push(q, item) ==
    LET pushed == Append(q.elements, item)
    IN  IF Len(pushed) > q.size
        THEN [queue |-> [q EXCEPT !.elements = Tail(pushed)], ret |-> Some(Head(pushed))]
        ELSE [queue |-> [q EXCEPT !.elements = pushed], ret |-> None]

\* Queue::contains
contains(q, item) == \E i \in 1..Len(q.elements) : q.elements[i] = item

-----------------------------------------------------------------------------
(* SpecCodec: the codec applied to inputs drawn in the initial states       *)

\* n bytes repeating the pattern p
Cycle(p, n) == <<>> \o [i \in 1..n |-> p[((i - 1) % Len(p)) + 1]]

\* "A", U+00E9 and U+20AC in UTF-8
PatA == <<65>>
PatE9 == <<195, 169>>
PatEuro == <<226, 130, 172>>
\* a byte no UTF-8 text holds
PatInvalid == <<255>>

\* Strings handed to try_from(String): valid UTF-8 of every length up to
\* MaxTextLen, some holding a 0 byte (U+0000 is a valid character).
CodecTexts ==
    {Cycle(PatA, n) : n \in 0..MaxTextLen}
        \cup {Cycle(PatE9, 2 * n) : n \in 0..(MaxTextLen \div 2)}
        \cup UNION {{WithByte(Cycle(PatA, n), p, 0) :
                         p \in {1, 2, MaxTextLen - 2} \cap (1..n)} :
                     n \in 1..MaxTextLen}

\* ids Uuid::new_v4() may return
CodecUuids == {MkUuid(b, 7) : b \in FirstBytes}

\* A block as a peer may send it: s bytes of the pattern, a 0 byte, the id,
\* 0 bytes to the end; cut at CAPACITY.  s = CAPACITY gives a block with no
\* 0 byte.
Block(pat, s, u) ==
    SubSeq(Cycle(pat, s) \o <<0>> \o u \o Fill(CAPACITY, 0), 1, CAPACITY)

CodecBlocks ==
    {Block(pat, s, MkUuid(9, 7)) :
         pat \in {PatA, PatE9, PatEuro, PatInvalid}, s \in 0..CAPACITY}

NoInput == [flow |-> "none", text |-> <<>>, u1 |-> <<>>, u2 |-> <<>>, block |-> <<>>]

CodecInputs ==
    {[flow |-> "local", text |-> t, u1 |-> a, u2 |-> b, block |-> <<>>] :
         t \in CodecTexts, a \in CodecUuids, b \in CodecUuids}
        \cup {[flow |-> "remote", text |-> <<>>, u1 |-> <<>>, u2 |-> <<>>, block |-> blk] :
                  blk \in CodecBlocks}

CodecIdle ==
    /\ c_pc = "idle" /\ c_in = NoInput
    /\ c_msg = NoResult /\ c_bytes = NoResult /\ c_back = NoResult

CodecInit ==
    /\ c_pc = "start"
    /\ c_in \in CodecInputs
    /\ c_msg = NoResult /\ c_bytes = NoResult /\ c_back = NoResult

\* Command::Broadcast(s): s.try_into()
CodecTryFromString ==
    /\ c_pc = "start" /\ c_in.flow = "local"
    /\ c_msg' = try_from_String(c_in.text, c_in.u1, c_in.u2)
    /\ c_pc' = "made"
    /\ UNCHANGED <<c_in, c_bytes, c_back>>
    /\ UNCHANGED <<loopVars, queueVars, streamVars, netVars>>

\* process_msg: msg.try_into() of the block read from a peer
CodecReceive ==
    /\ c_pc = "start" /\ c_in.flow = "remote"
    /\ c_msg' = try_from_array(c_in.block)
    /\ c_pc' = "made"
    /\ UNCHANGED <<c_in, c_bytes, c_back>>
    /\ UNCHANGED <<loopVars, queueVars, streamVars, netVars>>

\* broadcast: msg.clone().into_bytes()
CodecIntoBytes ==
    /\ c_pc = "made" /\ c_msg.tag = "Ok"
    /\ c_bytes' = into_bytes(c_msg.msg)
    /\ c_pc' = "encoded"
    /\ UNCHANGED <<c_in, c_msg, c_back>>
    /\ UNCHANGED <<loopVars, queueVars, streamVars, netVars>>

\* the peer's process_msg: try_into() of the frame written
CodecDecode ==
    /\ c_pc = "encoded" /\ c_bytes.tag = "Ok"
    /\ c_back' = try_from_array(c_bytes.bytes)
    /\ c_pc' = "decoded"
    /\ UNCHANGED <<c_in, c_msg, c_bytes>>
    /\ UNCHANGED <<loopVars, queueVars, streamVars, netVars>>

CodecNext == CodecTryFromString \/ CodecReceive \/ CodecIntoBytes \/ CodecDecode

-----------------------------------------------------------------------------
(* SpecQueue: push and contains on a queue of some capacity                *)

\* the text of the messages of SpecQueue and of the event loop: "hi"
ShortText == <<104, 105>>

\* the k-th message originated in the network
MkMsg(k) == [text |-> ShortText, uuid |-> MkUuid(k, k)]

QueueCaps == (1..MaxSmallCap) \cup {SEEN_SIZE}

NoCall == [op |-> "none", item |-> NoMsg, pre |-> <<>>, ret |-> None, found |-> FALSE]

QueueIdle ==
    /\ q_queue = QueueNew(0) /\ q_pushed = <<>> /\ q_evicted = <<>> /\ q_last = NoCall

QueueInit ==
    /\ q_queue \in {QueueNew(n) : n \in QueueCaps}
    /\ q_pushed = <<>> /\ q_evicted = <<>> /\ q_last = NoCall

\* items pushed so far, without repetition
QDistinct == {q_pushed[i] : i \in 1..Len(q_pushed)}

QPush(item) ==
    LET r == push(q_queue, item)
    IN  /\ Len(q_pushed) < q_queue.size + ExtraPushes
        /\ q_queue' = r.queue
        /\ q_pushed' = Append(q_pushed, item)
        /\ q_evicted' = q_evicted \o r.ret
        /\ q_last' = [op |-> "push", item |-> item, pre |-> q_queue.elements,
                      ret |-> r.ret, found |-> FALSE]
        /\ UNCHANGED <<loopVars, codecVars, streamVars, netVars>>

\* push of an item never pushed before
QueuePushNew == QPush(MkMsg(Cardinality(QDistinct) + 1))

\* push of an item pushed before: the first or the latest
QueuePushAgain ==
    /\ Len(q_pushed) - Cardinality(QDistinct) < MaxDups
    /\ \E item \in {q_pushed[i] : i \in {1, Len(q_pushed)} \cap DOMAIN q_pushed} :
          QPush(item)

\* contains of the first item pushed, of the front or the back of the queue,
\* or of an item never pushed
QueueContains ==
    \E item \in {q_pushed[i] : i \in {1} \cap DOMAIN q_pushed}
                  \cup {q_queue.elements[i] :
                            i \in {1, Len(q_queue.elements)} \cap DOMAIN q_queue.elements}
                  \cup {MkMsg(Cardinality(QDistinct) + 1)} :
        /\ q_last' = [op |-> "contains", item |-> item, pre |-> q_queue.elements,
                      ret |-> None, found |-> contains(q_queue, item)]
        /\ UNCHANGED <<q_queue, q_pushed, q_evicted>>
        /\ UNCHANGED <<loopVars, codecVars, streamVars, netVars>>

QueueNext == QueuePushNew \/ QueuePushAgain \/ QueueContains

-----------------------------------------------------------------------------
(* The event loop: streams, writes, propagation                            *)

\* remote addresses (peer_addr) of the sockets
Addrs == {1, 2}

\* A TcpStream: its identity, its peer_addr, whether Command::Disconnect
\* has shut it down, and what has reached the node's socket from the peer:
\* nothing that ends the connection ("open"); the end of the peer's stream,
\* the peer having closed or shut down its end ("closed"); or the end of the
\* connection ("reset"): the peer's reset, sent of its own accord or in
\* answer to data written to it after it closed, or the acknowledgement of
\* the node's shutdown by a peer that has closed.  What the peer sends takes
\* its time to arrive: a write to a peer that has closed succeeds, and so
\* does the next one until the reset is there.
NewStream(c, a) == [cid |-> c, addr |-> a, shutdown |-> FALSE, peer |-> "open"]

\* stream.peer_addr() and stream.shutdown(..) return Err(NotConnected) on a
\* connection that has ended
peer_addr_fails(stream) == stream.peer = "reset"

\* stream.write(..) returns Err on a socket shut down for writing and on a
\* connection that has ended
write_fails(stream) == stream.shutdown \/ stream.peer = "reset"

\* broadcast: into_bytes and write for each stream in order; a panic of
\* into_bytes or a failed write (expect) ends the process where it happens
\* (why: what ended it).
broadcast(strs, msg) ==
    LET enc == into_bytes(msg)
        bad == {i \in 1..Len(strs) : enc.tag = "Panic" \/ write_fails(strs[i])}
        stop == IF bad = {} THEN Len(strs) + 1
                ELSE CHOOSE i \in bad : \A j \in bad : i <= j
    IN  [streams |-> strs,
         writes |-> [i \in 1..(stop - 1) |-> [cid |-> strs[i].cid, frame |-> enc.bytes]],
         panic |-> bad # {},
         why |-> IF bad = {} THEN "" ELSE IF enc.tag = "Panic" THEN "into_bytes" ELSE "write"]

\* the streams, with the connections of the sockets in late ended
\* ("reset")
Ended(strs, late) ==
    [i \in 1..Len(strs) |->
        IF strs[i].cid \in late THEN [strs[i] EXCEPT !.peer = "reset"] ELSE strs[i]]

\* the sockets whose connection can end while propagate runs, after the
\* partition has asked them for their peer_addr and before broadcast writes
\* to them: the connected ones it writes to
LateCids(strs, origin) ==
    IF \E i \in 1..Len(strs) : peer_addr_fails(strs[i]) THEN {}
    ELSE {strs[i].cid : i \in {j \in 1..Len(strs) : strs[j].addr # origin}}

\* propagate: the streams of the origin address are held back, the others
\* are written to, and the held back ones are appended after them.  The
\* partition asks every stream for its peer_addr and unwraps it: a stream
\* that is not connected ends the process before any write.  The writes
\* come after the partition, stream by stream: the connections of the
\* sockets in late end in between, so the writes before the first of them
\* succeed and its write fails.
propagate(strs, msg, origin, late) ==
    LET origins == SelectSeq(strs, LAMBDA st : st.addr = origin)
        rest == SelectSeq(strs, LAMBDA st : ~(st.addr = origin))
        b == broadcast(Ended(SelectSeq(rest, LAMBDA st : st.addr # origin), late), msg)
    IN  IF \E i \in 1..Len(strs) : peer_addr_fails(strs[i])
        THEN [streams |-> strs, writes |-> <<>>, panic |-> TRUE, why |-> "peer_addr"]
        ELSE [streams |-> b.streams \o origins, writes |-> b.writes,
              panic |-> b.panic, why |-> b.why]

\* what stream.read(&mut msg) returns (NoRead: the read was not reached)
NoRead == [kind |-> "noread", frame |-> <<>>]
WouldBlock == [kind |-> "wouldblock", frame |-> <<>>]
Eof == [kind |-> "eof", frame |-> <<>>]
IoError == [kind |-> "ioerror", frame |-> <<>>]
Data(f) == [kind |-> "data", frame |-> f]

\* process_msg that delivers without looking at the cache
ProcessNoDedup(stream, q, outcome) ==
    LET dec == try_from_array(outcome.frame)
        m == dec.msg
    IN  CASE peer_addr_fails(stream) ->
               [keep |-> FALSE, prop |-> None, queue |-> q, panic |-> TRUE, read |-> None]
          [] outcome.kind = "eof" ->
               [keep |-> FALSE, prop |-> None, queue |-> q, panic |-> FALSE, read |-> None]
          [] outcome.kind = "wouldblock" ->
               [keep |-> TRUE, prop |-> None, queue |-> q, panic |-> FALSE, read |-> None]
          [] outcome.kind = "ioerror" ->
               [keep |-> FALSE, prop |-> None, queue |-> q, panic |-> TRUE, read |-> None]
          [] OTHER ->
               IF dec.tag # "Ok"
               THEN [keep |-> FALSE, prop |-> None, queue |-> q, panic |-> TRUE, read |-> None]
               ELSE [keep |-> TRUE, prop |-> Some([msg |-> m, origin |-> stream.addr]),
                     queue |-> push(q, m).queue, panic |-> FALSE,
                     read |-> Some([cid |-> stream.cid, addr |-> stream.addr, msg |-> m,
                                    delivered |-> TRUE])]

\* process_msg that retains the stream when the read returns end-of-stream
ProcessKeepEof(stream, q, outcome) ==
    LET dec == try_from_array(outcome.frame)
        m == dec.msg
    IN  CASE peer_addr_fails(stream) ->
               [keep |-> FALSE, prop |-> None, queue |-> q, panic |-> TRUE, read |-> None]
          [] outcome.kind = "eof" ->
               [keep |-> TRUE, prop |-> None, queue |-> q, panic |-> FALSE, read |-> None]
          [] outcome.kind = "wouldblock" ->
               [keep |-> TRUE, prop |-> None, queue |-> q, panic |-> FALSE, read |-> None]
          [] outcome.kind = "ioerror" ->
               [keep |-> FALSE, prop |-> None, queue |-> q, panic |-> TRUE, read |-> None]
          [] OTHER ->
               IF dec.tag # "Ok"
               THEN [keep |-> FALSE, prop |-> None, queue |-> q, panic |-> TRUE, read |-> None]
               ELSE IF contains(q, m)
               THEN [keep |-> TRUE, prop |-> None, queue |-> q, panic |-> FALSE,
                     read |-> Some([cid |-> stream.cid, addr |-> stream.addr, msg |-> m,
                                    delivered |-> FALSE])]
               ELSE [keep |-> TRUE, prop |-> Some([msg |-> m, origin |-> stream.addr]),
                     queue |-> push(q, m).queue, panic |-> FALSE,
                     read |-> Some([cid |-> stream.cid, addr |-> stream.addr, msg |-> m,
                                    delivered |-> TRUE])]

\* process_msg: one read of one stream.  keep: the stream is retained;
\* prop: the (message, origin) to propagate; read: the log of a decoded
\* frame, delivered when it was printed and handed on for propagation.
\* stream.peer_addr().expect(..) comes before the read.
process_msg(stream, q, outcome) ==
    LET dec == try_from_array(outcome.frame)
        m == dec.msg
    IN  CASE peer_addr_fails(stream) ->
               [keep |-> FALSE, prop |-> None, queue |-> q, panic |-> TRUE, read |-> None]
          [] outcome.kind = "eof" ->
               [keep |-> FALSE, prop |-> None, queue |-> q, panic |-> FALSE, read |-> None]
          [] outcome.kind = "wouldblock" ->
               [keep |-> TRUE, prop |-> None, queue |-> q, panic |-> FALSE, read |-> None]
          [] outcome.kind = "ioerror" ->
               [keep |-> FALSE, prop |-> None, queue |-> q, panic |-> TRUE, read |-> None]
          [] OTHER ->
               IF dec.tag # "Ok"
               THEN [keep |-> FALSE, prop |-> None, queue |-> q, panic |-> TRUE, read |-> None]
               ELSE IF contains(q, m)
               THEN [keep |-> TRUE, prop |-> None, queue |-> q, panic |-> FALSE,
                     read |-> Some([cid |-> stream.cid, addr |-> stream.addr, msg |-> m,
                                    delivered |-> FALSE])]
               ELSE [keep |-> TRUE, prop |-> Some([msg |-> m, origin |-> stream.addr]),
                     queue |-> push(q, m).queue, panic |-> FALSE,
                     read |-> Some([cid |-> stream.cid, addr |-> stream.addr, msg |-> m,
                                    delivered |-> TRUE])]

-----------------------------------------------------------------------------
(* Spec: the event loop of run                                             *)

\* kinds of ReadEvents
AllKinds == {"wouldblock", "eof", "ioerror", "nosep", "latesep", "lossy", "msg"}

\* The environment of Spec: peers dial and are dialled at any time, and a
\* read finds any of the events.
FullEnv ==
    [conns |-> MaxConns, msgs |-> MaxMsgs, pushes |-> MaxMsgs + 1,
     dialFirst |-> FALSE, replayFirst |-> FALSE, kinds |-> AllKinds]

\* A second environment of Spec, with one peer more, so that propagate has
\* more than one stream to write to: the peers are all there before the
\* first message, and every block a peer sends is the frame of a message.
\* A read finds nothing, such a frame, the end of the stream or an error.
WideEnv ==
    [conns |-> MaxConns + 1, msgs |-> WideMsgs, pushes |-> WideMsgs + 1,
     dialFirst |-> TRUE, replayFirst |-> FALSE,
     kinds |-> {"wouldblock", "eof", "ioerror", "msg"}]

\* The environment of SpecDedup: the peers are all there before the first
\* message, every block read is the frame of a message, and there are
\* enough messages to fill the cache and evict from it.  The threads run and
\* a peer ends a connection by the end-of-stream a read finds, or while
\* propagate runs.
DedupEnv ==
    [conns |-> DedupConns, msgs |-> SEEN_SIZE + DedupExtraMsgs,
     pushes |-> SEEN_SIZE + DedupExtraMsgs + 1,
     dialFirst |-> TRUE, replayFirst |-> TRUE, kinds |-> {"wouldblock", "eof", "msg"}]

\* the log of a step of run: its name, the text of the command or the kind
\* of the read, and the channel, the peer set, the cache and the locals of
\* receive_msgs it started with
StepLog(name, text, kind) ==
    [name |-> name, text |-> text, kind |-> kind,
     in_comms |-> in_comms, streams |-> streams, seen |-> seen,
     retained |-> retained, propagees |-> propagees]
NoStep ==
    [name |-> "none", text |-> <<>>, kind |-> "",
     in_comms |-> <<>>, streams |-> <<>>, seen |-> QueueNew(0),
     retained |-> <<>>, propagees |-> <<>>]

LoopIdle ==
    /\ pc = "idle" /\ in_comms = <<>> /\ streams = <<>> /\ seen = QueueNew(0)
    /\ nconn = 0 /\ nmsg = 0 /\ npush = 0 /\ everSeen = {}
    /\ ri = 1 /\ retained = <<>> /\ propagees = <<>>
    /\ lastRead = None /\ lastCall = None
    /\ lastStep = NoStep /\ closed = {} /\ accepted = None
    /\ listening = FALSE /\ cmds_open = FALSE /\ nfault = 0
    /\ env = FullEnv

\* run, up to listen(ip)
LoopInit(e) ==
    /\ env = e
    /\ pc = "start"
    /\ listening = FALSE /\ cmds_open = FALSE /\ nfault = 0
    /\ in_comms = <<>>
    /\ streams = <<>>
    /\ seen = QueueNew(SEEN_SIZE)
    /\ nconn = 0 /\ nmsg = 0 /\ npush = 0 /\ everSeen = {}
    /\ ri = 1 /\ retained = <<>> /\ propagees = <<>>
    /\ lastRead = None /\ lastCall = None
    /\ lastStep = NoStep /\ closed = {} /\ accepted = None

Running == pc \in {"accept", "cmd", "recv"}

\* run: listen(ip)? returns from run when the address cannot be bound;
\* otherwise the threads of listen and read_input run and the loop begins
Start ==
    /\ pc = "start"
    /\ \E ok \in BOOLEAN :
          /\ pc' = IF ok THEN "accept" ELSE "exited"
          /\ listening' = ok
          /\ cmds_open' = ok
    /\ lastStep' = StepLog("start", <<>>, "")
    /\ UNCHANGED <<in_comms, streams, seen, nconn, nmsg, npush, everSeen,
                   ri, retained, propagees, lastRead, lastCall, closed, accepted, nfault, env>>
    /\ UNCHANGED <<codecVars, queueVars, streamVars, netVars>>

\* listen's thread: listener.accept()? returns from the thread on an error,
\* and the sender of in_comms is dropped.  The loop finds it out at
\* in_comms.try_recv(), so the step is taken there.
ListenEnds ==
    /\ pc = "accept" /\ listening
    /\ listening' = FALSE
    /\ UNCHANGED <<pc, in_comms, streams, seen, nconn, nmsg, npush, everSeen,
                   ri, retained, propagees, lastRead, lastCall,
                   lastStep, closed, accepted, cmds_open, nfault, env>>
    /\ UNCHANGED <<codecVars, queueVars, streamVars, netVars>>

\* read_input's thread: stdin is at its end or holds a line that is no
\* command, input.parse().unwrap() panics in the thread, and the sender of
\* cmds is dropped.  The loop finds it out at cmds.try_recv(), so the step
\* is taken there.
InputEnds ==
    /\ pc = "cmd" /\ cmds_open
    /\ cmds_open' = FALSE
    /\ UNCHANGED <<pc, in_comms, streams, seen, nconn, nmsg, npush, everSeen,
                   ri, retained, propagees, lastRead, lastCall,
                   lastStep, closed, accepted, listening, nfault, env>>
    /\ UNCHANGED <<codecVars, queueVars, streamVars, netVars>>

\* the sockets the next step of the loop makes a call on: the one accept
\* takes from the channel, the peer set of a command, the one process_msg
\* reads, the ones propagate partitions
NextStreams ==
    CASE pc = "accept" -> IF in_comms = <<>> THEN {} ELSE {Head(in_comms)}
      [] pc = "cmd"    -> {streams[i] : i \in 1..Len(streams)}
      [] pc = "recv" /\ ri <= Len(streams) -> {streams[ri]}
      [] pc = "recv" /\ ri > Len(streams) /\ propagees # <<>> ->
             {retained[i] : i \in 1..Len(retained)}
      [] OTHER -> {}

\* the streams with the socket cid in the state v of its peer
SetPeer(strs, cid, v) ==
    [i \in 1..Len(strs) |->
        IF strs[i].cid = cid THEN [strs[i] EXCEPT !.peer = v] ELSE strs[i]]

\* The end of the peer's stream, or the end of the connection, reaches the
\* socket; the connection may end after the end of the stream has come.
\* The node finds it out at its next call on the socket, so the step is
\* taken there.
PeerEnds ==
    /\ Running
    /\ \E st \in NextStreams, v \in {"closed", "reset"} :
          /\ st.peer = "open" \/ (st.peer = "closed" /\ v = "reset")
          /\ st.peer = "open" => nfault < MaxPeerEnds
          /\ nfault' = IF st.peer = "open" THEN nfault + 1 ELSE nfault
          /\ in_comms' = SetPeer(in_comms, st.cid, v)
          /\ streams' = SetPeer(streams, st.cid, v)
          /\ retained' = SetPeer(retained, st.cid, v)
    /\ lastRead' = None /\ lastCall' = None
    /\ lastStep' = StepLog("peer", <<>>, "")
    /\ UNCHANGED <<pc, seen, nconn, nmsg, npush, everSeen, ri, propagees,
                   closed, accepted, listening, cmds_open, env>>
    /\ UNCHANGED <<codecVars, queueVars, streamVars, netVars>>

\* listen's thread: accept a socket and send it on the channel
Listen ==
    /\ Running /\ listening
    /\ nconn < env.conns
    /\ env.dialFirst => npush = 0
    /\ \E a \in Addrs : in_comms' = Append(in_comms, NewStream(nconn + 1, a))
    /\ nconn' = nconn + 1
    /\ UNCHANGED <<pc, streams, seen, nmsg, npush, everSeen,
                   ri, retained, propagees, lastRead, lastCall,
                   lastStep, closed, accepted, listening, cmds_open, nfault, env>>
    /\ UNCHANGED <<codecVars, queueVars, streamVars, netVars>>

\* run: match in_comms.try_recv().  Empty: nothing; Disconnected (the channel
\* is empty and listen's thread has ended): todo!() panics; Ok(comm):
\* comm.peer_addr().unwrap() for the println, then streams.push(comm).
Accept ==
    /\ pc = "accept"
    /\ IF in_comms = <<>>
       THEN /\ accepted' = None
            /\ pc' = IF listening THEN "cmd" ELSE "panicked"
            /\ UNCHANGED <<in_comms, streams>>
       ELSE /\ in_comms' = Tail(in_comms)
            /\ IF peer_addr_fails(Head(in_comms))
               THEN /\ pc' = "panicked"
                    /\ accepted' = None
                    /\ UNCHANGED streams
               ELSE /\ pc' = "cmd"
                    /\ streams' = Append(streams, Head(in_comms))
                    /\ accepted' = Some(Head(in_comms).cid)
    /\ lastRead' = None /\ lastCall' = None
    /\ lastStep' = StepLog("accept", <<>>, "")
    /\ UNCHANGED <<seen, nconn, nmsg, npush, everSeen, ri, retained, propagees, closed, listening, cmds_open, nfault, env>>
    /\ UNCHANGED <<codecVars, queueVars, streamVars, netVars>>

\* run: cmds.try_recv() is Disconnected (no command waits and read_input's
\* thread has ended): todo!() panics
CmdGone ==
    /\ pc = "cmd" /\ ~cmds_open
    /\ pc' = "panicked"
    /\ lastRead' = None /\ lastCall' = None
    /\ lastStep' = StepLog("nocmds", <<>>, "")
    /\ UNCHANGED <<in_comms, streams, seen, nconn, nmsg, npush, everSeen,
                   ri, retained, propagees, closed, accepted, listening, cmds_open, nfault, env>>
    /\ UNCHANGED <<codecVars, queueVars, streamVars, netVars>>

\* run: cmds.try_recv() is Empty
CmdEmpty ==
    /\ pc = "cmd" /\ cmds_open
    /\ pc' = "recv"
    /\ lastRead' = None /\ lastCall' = None
    /\ lastStep' = StepLog("empty", <<>>, "")
    /\ UNCHANGED <<in_comms, streams, seen, nconn, nmsg, npush, everSeen,
                   ri, retained, propagees, closed, accepted, listening, cmds_open, nfault, env>>
    /\ UNCHANGED <<codecVars, queueVars, streamVars, netVars>>

\* run: Command::Connect(addr); connect(..)? returns from run on an error
CmdConnect ==
    /\ pc = "cmd" /\ cmds_open
    /\ nconn < env.conns
    /\ env.dialFirst => npush = 0
    /\ \E a \in Addrs, ok \in BOOLEAN :
          IF ok
          THEN /\ streams' = Append(streams, NewStream(nconn + 1, a))
               /\ nconn' = nconn + 1
               /\ pc' = "recv"
          ELSE /\ pc' = "exited"
               /\ UNCHANGED <<streams, nconn>>
    /\ lastRead' = None /\ lastCall' = None
    /\ lastStep' = StepLog("connect", <<>>, "")
    /\ UNCHANGED <<in_comms, seen, nmsg, npush, everSeen, ri, retained, propagees,
                   closed, accepted, listening, cmds_open, nfault, env>>
    /\ UNCHANGED <<codecVars, queueVars, streamVars, netVars>>

\* texts of Command::Broadcast in the event loop: "hi" and one byte too many
LongText == Cycle(PatA, CAPACITY - SEP_SIZE - UUID_SIZE + 1)
LoopTexts == {ShortText, LongText}

\* the record of a call of broadcast or propagate (origin 0: none)
Call(fn, peers, msg, origin, r) ==
    [fn |-> fn, peers |-> peers, msg |-> msg, origin |-> origin,
     writes |-> r.writes, panic |-> r.panic, why |-> r.why]

\* run: Command::Broadcast(s)
CmdBroadcast ==
    /\ pc = "cmd" /\ cmds_open
    /\ nmsg < env.msgs /\ npush < env.pushes
    /\ \E s \in LoopTexts, b0 \in FirstBytes :
          \E r \in {try_from_String(s, MkUuid(b0, 0), MkUuid(nmsg + 1, nmsg + 1))} :
              /\ lastStep' = StepLog("broadcast", s, "")
              /\ IF r.tag # "Ok"
                 THEN /\ pc' = "panicked"
                      /\ lastCall' = None
                      /\ UNCHANGED <<streams, seen, nmsg, npush, everSeen>>
                 ELSE \E msg \in {r.msg}, b \in {broadcast(streams, r.msg)} :
                      /\ seen' = push(seen, msg).queue
                      /\ streams' = b.streams
                      /\ lastCall' = Some(Call("broadcast", streams, msg, 0, b))
                      /\ pc' = IF b.panic THEN "panicked" ELSE "recv"
                      /\ nmsg' = nmsg + 1
                      /\ npush' = npush + 1
                      /\ everSeen' = everSeen \cup {msg}
    /\ lastRead' = None
    /\ UNCHANGED <<in_comms, nconn, ri, retained, propagees, closed, accepted, listening, cmds_open, nfault, env>>
    /\ UNCHANGED <<codecVars, queueVars, streamVars, netVars>>

\* Command::Disconnect: stream.shutdown(Shutdown::Both) on the streams in
\* order, collected into an io::Result.  The first stream whose shutdown
\* returns an error (it is not connected) ends the iteration: the streams
\* before it are shut down, the ones after it are not reached.
shutdown_all(strs) ==
    LET bad == {i \in 1..Len(strs) : peer_addr_fails(strs[i])}
        f == IF bad = {} THEN 0 ELSE CHOOSE i \in bad : \A j \in bad : i <= j
    IN  [streams |-> [i \in 1..Len(strs) |->
                         IF f = 0 \/ i < f THEN [strs[i] EXCEPT !.shutdown = TRUE]
                         ELSE strs[i]],
         err |-> f # 0]

\* run: Command::Disconnect; the ? returns from run on an error
CmdDisconnect ==
    /\ pc = "cmd" /\ cmds_open
    /\ \E r \in {shutdown_all(streams)} :
          /\ streams' = r.streams
          /\ pc' = IF r.err THEN "exited" ELSE "recv"
    /\ lastRead' = None /\ lastCall' = None
    /\ lastStep' = StepLog("disconnect", <<>>, "")
    /\ UNCHANGED <<in_comms, seen, nconn, nmsg, npush, everSeen, ri, retained, propagees,
                   closed, accepted, listening, cmds_open, nfault, env>>
    /\ UNCHANGED <<codecVars, queueVars, streamVars, netVars>>

\* blocks a peer may send that are no frame of a message
NoSepBlock == Block(PatA, CAPACITY, MkUuid(9, 0))
LateSepBlock == Block(PatA, CAPACITY - SEP_SIZE - UUID_SIZE + 1, MkUuid(9, 0))
\* 40 bytes that are no UTF-8, then a separator and an id
LossyBlock == Block(PatInvalid, 40, MkUuid(9, 0))

\* What a read of a peer's socket may find, named: nothing yet, the end of
\* the stream, an error, the frame of message k, or one of the blocks above.
\* The messages a peer sends are the latest originated, one this node never
\* saw and, in SpecDedup, the first ever originated.
PeerIds ==
    {k \in {nmsg, nmsg + 1} \cup (IF env.replayFirst THEN {1} ELSE {}) :
         k >= 1 /\ k <= env.msgs}

ReadEvents ==
    {[kind |-> kd, k |-> 0] : kd \in env.kinds \ {"msg"}}
        \cup {[kind |-> "msg", k |-> k] : k \in PeerIds}

\* A read of a socket shut down for reading, or whose peer has closed or
\* reset the connection, never blocks: it returns what it had buffered, the
\* error of a reset once, and then end-of-stream.  A connection that is
\* open at peer_addr may be reset by the time of the read.
EventPossible(stream, ev) ==
    (stream.shutdown \/ stream.peer # "open") => ev.kind # "wouldblock"

\* the events of a read of the stream by process_msg: none when peer_addr
\* fails before it
ReadEventsOf(stream) ==
    IF peer_addr_fails(stream) THEN {[kind |-> "noread", k |-> 0]}
    ELSE {ev \in ReadEvents : EventPossible(stream, ev)}

\* what stream.read(&mut msg) returns on the event
ReadResult(ev) ==
    CASE ev.kind = "noread"     -> NoRead
      [] ev.kind = "wouldblock" -> WouldBlock
      [] ev.kind = "eof"        -> Eof
      [] ev.kind = "ioerror"    -> IoError
      [] ev.kind = "nosep"      -> Data(NoSepBlock)
      [] ev.kind = "latesep"    -> Data(LateSepBlock)
      [] ev.kind = "lossy"      -> Data(LossyBlock)
      [] OTHER                  -> Data(into_bytes(MkMsg(ev.k)).bytes)

\* the log of a read: what process_msg decoded and did, the cache as it was
\* before the call, and whether the id had been pushed to seen before it
Annotate(rd, pre, prop, ever) ==
    [i \in 1..Len(rd) |->
        [cid |-> rd[i].cid, addr |-> rd[i].addr, msg |-> rd[i].msg,
         delivered |-> rd[i].delivered, pre |-> pre, prop |-> prop,
         known |-> \E m \in ever : m.uuid = rd[i].msg.uuid]]

\* receive_msgs: process_msg on the next stream of streams.into_iter()
ProcessMsg ==
    /\ pc = "recv" /\ ri <= Len(streams)
    /\ \E st \in {streams[ri]} : \E ev \in ReadEventsOf(st) :
          /\ \E r \in {process_msg(st, seen, ReadResult(ev))} :
              LET new == {r.prop[i].msg : i \in 1..Len(r.prop)} IN
              /\ npush + Len(r.prop) <= env.pushes
              /\ seen' = r.queue
              /\ retained' = IF r.keep THEN Append(retained, st) ELSE retained
              /\ propagees' = propagees \o r.prop
              /\ lastRead' = Annotate(r.read, seen.elements, r.prop, everSeen)
              /\ pc' = IF r.panic THEN "panicked" ELSE "recv"
              /\ npush' = npush + Len(r.prop)
              /\ nmsg' = IF MkMsg(nmsg + 1) \in new THEN nmsg + 1 ELSE nmsg
              /\ everSeen' = everSeen \cup new
              /\ lastStep' = StepLog("read", <<>>, ev.kind)
              /\ closed' = IF ev.kind = "eof" THEN closed \cup {st.cid} ELSE closed
    /\ ri' = ri + 1
    /\ lastCall' = None
    /\ UNCHANGED <<in_comms, streams, nconn, accepted, listening, cmds_open, nfault, env>>
    /\ UNCHANGED <<codecVars, queueVars, streamVars, netVars>>

\* the sockets of the streams whose peer has sent nothing that ends the
\* connection
OpenCids(strs) == {strs[i].cid : i \in {j \in 1..Len(strs) : strs[j].peer = "open"}}

\* receive_msgs: one step of the fold of propagate over the propagees.
\* While the call runs, connections of the streams it writes to may end.
Propagate ==
    /\ pc = "recv" /\ ri > Len(streams) /\ propagees # <<>>
    /\ \E p \in {Head(propagees)} :
       \E late \in SUBSET LateCids(retained, p.origin) :
       \E n \in {nfault + Cardinality(late \cap OpenCids(retained))} :
       \E r \in {propagate(retained, p.msg, p.origin, late)} :
           /\ n <= MaxPeerEnds
           /\ nfault' = n
           /\ retained' = r.streams
           /\ lastCall' = Some(Call("propagate", retained, p.msg, p.origin, r))
           /\ pc' = IF r.panic THEN "panicked" ELSE "recv"
    /\ propagees' = Tail(propagees)
    /\ lastRead' = None
    /\ lastStep' = StepLog("propagate", <<>>, "")
    /\ UNCHANGED <<in_comms, streams, seen, nconn, nmsg, npush, everSeen, ri,
                   closed, accepted, listening, cmds_open, env>>
    /\ UNCHANGED <<codecVars, queueVars, streamVars, netVars>>

\* run: streams = receive_msgs(..), and the loop starts over
ReceiveReturn ==
    /\ pc = "recv" /\ ri > Len(streams) /\ propagees = <<>>
    /\ streams' = retained
    /\ retained' = <<>>
    /\ ri' = 1
    /\ pc' = "accept"
    /\ lastRead' = None /\ lastCall' = None
    /\ lastStep' = StepLog("return", <<>>, "")
    /\ UNCHANGED <<in_comms, seen, nconn, nmsg, npush, everSeen, propagees,
                   closed, accepted, listening, cmds_open, nfault, env>>
    /\ UNCHANGED <<codecVars, queueVars, streamVars, netVars>>

\* the loop while the threads of listen and read_input run and no peer ends
\* a connection between two calls of the loop
LoopSteps ==
    \/ Start \/ Listen \/ Accept
    \/ CmdEmpty \/ CmdConnect \/ CmdBroadcast \/ CmdDisconnect
    \/ ProcessMsg \/ Propagate \/ ReceiveReturn

\* what may fail: the threads end, the peers close and reset connections
LoopFaults == ListenEnds \/ InputEnds \/ PeerEnds \/ CmdGone

LoopNext == LoopSteps \/ LoopFaults

-----------------------------------------------------------------------------
(* SpecStream: one connection, as the stream of bytes TCP makes of it       *)

StreamIdle ==
    /\ w_pc = "idle" /\ w_wire = <<>> /\ w_sent = <<>> /\ w_decoded = <<>>

StreamInit ==
    /\ w_pc = "run" /\ w_wire = <<>> /\ w_sent = <<>> /\ w_decoded = <<>>

\* numbers of bytes a read returns: 1, part of the text-separator-id of the
\* frame of "hi", just that, a part of the padding, all but one byte, a frame
ReadSizes == {1, 10, Len(ShortText) + SEP_SIZE + UUID_SIZE, 64, CAPACITY - 1, CAPACITY}

\* the peer's broadcast: stream.write(&msg.clone().into_bytes()) puts the
\* CAPACITY bytes of the frame on the connection
StreamWrite ==
    /\ w_pc = "run"
    /\ Len(w_sent) < MaxFrames
    /\ LET msg == MkMsg(Len(w_sent) + 1)
       IN  /\ w_wire' = w_wire \o into_bytes(msg).bytes
           /\ w_sent' = Append(w_sent, msg)
    /\ UNCHANGED <<w_pc, w_decoded>>
    /\ UNCHANGED <<loopVars, codecVars, queueVars, netVars>>

\* process_msg: stream.read(&mut msg) into an array of CAPACITY zeroes
\* returns n bytes, 1 <= n <= CAPACITY, of those on the connection; Ok(_)
\* takes whatever n is, and the array goes to try_into().unwrap().
StreamRead ==
    /\ w_pc = "run"
    /\ Len(w_decoded) < MaxReads
    /\ \E n \in ReadSizes :
          /\ n <= Len(w_wire)
          /\ LET msg == SubSeq(w_wire, 1, n) \o Fill(CAPACITY - n, 0)
                 m == try_from_array(msg)
             IN  /\ w_wire' = SubSeq(w_wire, n + 1, Len(w_wire))
                 /\ IF m.tag = "Ok"
                    THEN w_decoded' = Append(w_decoded, m.msg) /\ w_pc' = "run"
                    ELSE w_decoded' = w_decoded /\ w_pc' = "panicked"
    /\ UNCHANGED w_sent
    /\ UNCHANGED <<loopVars, codecVars, queueVars, netVars>>

StreamNext == StreamWrite \/ StreamRead

-----------------------------------------------------------------------------
(* SpecNet: several nodes, each running the loop of run, connected          *)

\* A step of a node is one call on a socket, with what the node does
\* before it: a write of broadcast, the read of process_msg; or a part of
\* its loop with no such call: a command up to broadcast, propagate up to
\* broadcast, the return of receive_msgs.  The steps of the nodes interleave
\* freely.  A node that panics is a process that has ended; that its
\* sockets were closed reaches each peer in a step of its own.

Nodes == 1..NumNodes

\* the connections of a line of the nodes, and of a ring (a cycle) of them
LineEdges == {{i, i + 1} : i \in 1..(NumNodes - 1)}
RingEdges == LineEdges \cup {{1, NumNodes}}

\* the streams of node n: one per connection of n, in the order of the
\* peers; the peer_addr of a stream tells the peer
RECURSIVE StreamsTo(_, _, _)
StreamsTo(edges, n, p) ==
    IF p > NumNodes THEN <<>>
    ELSE (IF {n, p} \in edges /\ p # n THEN <<NewStream(p, p)>> ELSE <<>>)
             \o StreamsTo(edges, n, p + 1)

\* a text with a 0 byte in it: "a\0b"
NulText == <<97, 0, 98>>
NetTexts == {ShortText, NulText}

NetIdle ==
    /\ n_pc = <<>> /\ n_streams = <<>> /\ n_seen = <<>> /\ n_chan = <<>>
    /\ n_printed = <<>> /\ n_orig = <<>>
    /\ n_ri = <<>> /\ n_retained = <<>> /\ n_propagees = <<>> /\ n_w = <<>>

\* Every node is at the command step of its first iteration, the
\* connections of a line or of a ring are accepted, nothing is written and
\* nothing is cached.  No connection is made later: in_comms.try_recv() is
\* Empty in every iteration.
NetInit ==
    /\ n_pc = [n \in Nodes |-> "cmd"]
    /\ \E edges \in {LineEdges, RingEdges} :
          n_streams = [n \in Nodes |-> StreamsTo(edges, n, 1)]
    /\ n_seen = [n \in Nodes |-> QueueNew(SEEN_SIZE)]
    /\ n_chan = [c \in Nodes \X Nodes |-> <<>>]
    /\ n_printed = [n \in Nodes |-> <<>>]
    /\ n_orig = [n \in Nodes |-> <<>>]
    /\ n_ri = [n \in Nodes |-> 1]
    /\ n_retained = [n \in Nodes |-> <<>>]
    /\ n_propagees = [n \in Nodes |-> <<>>]
    /\ n_w = [n \in Nodes |-> None]

\* broadcasts made in the network so far
NetMsgCount ==
    LET RECURSIVE Sum(_)
        Sum(n) == IF n = 0 THEN 0 ELSE Len(n_orig[n]) + Sum(n - 1)
    IN  Sum(NumNodes)

\* the process of the node has ended
NetEnded(n) == n_pc[n] = "panicked"

\* What the read of node n on the stream may return.  A frame the peer
\* wrote takes its time to arrive: until the end of the peer's stream has
\* come, the read finds the oldest unread frame or would block.  After it,
\* the read finds the frames left and then end-of-stream.  When the peer's
\* process has ended with frames of n unread, its reset may come between
\* peer_addr and the read, which then returns the error.  The read is not
\* reached when peer_addr fails.
NetRead(n, stream) ==
    IF peer_addr_fails(stream) THEN {NoRead}
    ELSE (IF n_chan[<<stream.addr, n>>] # <<>>
          THEN {Data(Head(n_chan[<<stream.addr, n>>]))} ELSE {})
         \cup (IF stream.peer = "open" THEN {WouldBlock} ELSE {})
         \cup (IF stream.peer = "closed" /\ n_chan[<<stream.addr, n>>] = <<>>
               THEN {Eof} ELSE {})
         \cup (IF NetEnded(stream.addr) /\ n_chan[<<n, stream.addr>>] # <<>>
               THEN {IoError} ELSE {})

\* the streams with the connections to the node a in the state v
NetSetPeer(strs, a, v) ==
    [i \in 1..Len(strs) |->
        IF strs[i].addr = a THEN [strs[i] EXCEPT !.peer = v] ELSE strs[i]]

\* the streams the next call of node m asks: the stream of the next write,
\* the stream of the next read, the streams propagate partitions
NetLive(m) ==
    CASE n_pc[m] = "bcast" -> {n_streams[m][n_w[m][1].i]}
      [] n_pc[m] = "prop"  -> {n_retained[m][n_w[m][1].i]}
      [] n_pc[m] = "recv" /\ n_ri[m] <= Len(n_streams[m]) -> {n_streams[m][n_ri[m]]}
      [] n_pc[m] = "recv" /\ n_propagees[m] # <<>> ->
             {n_retained[m][i] : i \in 1..Len(n_retained[m])}
      [] OTHER -> {}

\* The process of a node has ended and its sockets were closed; this reaches
\* a peer m some time later, and shows in the next call of m that asks the
\* stream.  The end of the stream comes when the node had
\* read what had arrived of m's frames; the end of the connection comes,
\* with or without the end of the stream before it, when m wrote frames the
\* node has not read.
NetPeerEnds ==
    \E m \in Nodes :
        /\ n_pc # <<>> /\ ~NetEnded(m)
        /\ \E st \in NetLive(m), v \in {"closed", "reset"} :
              /\ NetEnded(st.addr)
              /\ st.peer = "open" \/ (st.peer = "closed" /\ v = "reset")
              /\ v = "reset" => n_chan[<<m, st.addr>>] # <<>>
              /\ n_streams' = [n_streams EXCEPT ![m] = NetSetPeer(@, st.addr, v)]
              /\ n_retained' = [n_retained EXCEPT ![m] = NetSetPeer(@, st.addr, v)]
        /\ UNCHANGED <<n_pc, n_seen, n_chan, n_printed, n_orig, n_ri, n_propagees, n_w>>
        /\ UNCHANGED <<loopVars, codecVars, queueVars, streamVars>>

\* node n: cmds.try_recv() is Empty
NetCmdEmpty ==
    \E n \in Nodes :
        /\ n_pc # <<>> /\ n_pc[n] = "cmd"
        /\ n_pc' = [n_pc EXCEPT ![n] = "recv"]
        /\ UNCHANGED <<n_streams, n_seen, n_chan, n_printed, n_orig,
                       n_ri, n_retained, n_propagees, n_w>>
        /\ UNCHANGED <<loopVars, codecVars, queueVars, streamVars>>

\* the writes broadcast has to make for the message, to the first k of the
\* streams it was called with
NetWrites(msg, k) == IF k = 0 THEN None ELSE Some([msg |-> msg, i |-> 1, last |-> k])

\* node n: Command::Broadcast(s), up to the call of broadcast
NetBroadcast ==
    \E n \in Nodes, s \in NetTexts, b0 \in FirstBytes :
        /\ n_pc # <<>> /\ n_pc[n] = "cmd"
        /\ \E k \in {NetMsgCount + 1} :
           \E r \in {try_from_String(s, MkUuid(b0, 0), MkUuid(k, k))} :
               IF r.tag = "Ok"
               THEN /\ k <= MaxNetMsgs
                    /\ n_seen' = [n_seen EXCEPT ![n] = push(@, r.msg).queue]
                    /\ n_orig' = [n_orig EXCEPT ![n] = Append(@, r.msg)]
                    /\ n_w' = [n_w EXCEPT ![n] = NetWrites(r.msg, Len(n_streams[n]))]
                    /\ n_pc' = [n_pc EXCEPT ![n] =
                                   IF n_streams[n] = <<>> THEN "recv" ELSE "bcast"]
               ELSE /\ n_pc' = [n_pc EXCEPT ![n] = "panicked"]
                    /\ UNCHANGED <<n_seen, n_orig, n_w>>
        /\ UNCHANGED <<n_streams, n_chan, n_printed, n_ri, n_retained, n_propagees>>
        /\ UNCHANGED <<loopVars, codecVars, queueVars, streamVars>>

\* node n, broadcast: into_bytes and write for the next stream, of the peer
\* set when a command called broadcast and of the accumulator of the fold
\* when propagate did; broadcast returns after the last one
NetWrite ==
    \E n \in Nodes :
        /\ n_pc # <<>> /\ n_pc[n] \in {"bcast", "prop"}
        /\ \E w \in {n_w[n][1]} :
           \E st \in {IF n_pc[n] = "bcast" THEN n_streams[n][w.i] ELSE n_retained[n][w.i]} :
           \E enc \in {into_bytes(w.msg)} :
               IF enc.tag = "Panic" \/ write_fails(st)
               THEN /\ n_pc' = [n_pc EXCEPT ![n] = "panicked"]
                    /\ UNCHANGED <<n_chan, n_w>>
               ELSE /\ n_chan' = [n_chan EXCEPT ![<<n, st.addr>>] = Append(@, enc.bytes)]
                    /\ IF w.i = w.last
                       THEN /\ n_pc' = [n_pc EXCEPT ![n] = "recv"]
                            /\ n_w' = [n_w EXCEPT ![n] = None]
                       ELSE /\ n_w' = [n_w EXCEPT ![n] = Some([w EXCEPT !.i = @ + 1])]
                            /\ UNCHANGED n_pc
        /\ UNCHANGED <<n_streams, n_seen, n_printed, n_orig, n_ri, n_retained, n_propagees>>
        /\ UNCHANGED <<loopVars, codecVars, queueVars, streamVars>>

\* node n, receive_msgs: process_msg on the next stream
NetProcessMsg ==
    \E n \in Nodes :
        /\ n_pc # <<>> /\ n_pc[n] = "recv" /\ n_ri[n] <= Len(n_streams[n])
        /\ \E st \in {n_streams[n][n_ri[n]]} :
           \E out \in NetRead(n, st) :
           \E r \in {process_msg(st, n_seen[n], out)} :
               /\ n_pc' = [n_pc EXCEPT ![n] = IF r.panic THEN "panicked" ELSE "recv"]
               /\ n_chan' = IF out.kind = "data"
                            THEN [n_chan EXCEPT ![<<st.addr, n>>] = Tail(@)]
                            ELSE n_chan
               /\ n_retained' = [n_retained EXCEPT ![n] =
                                    IF r.keep THEN Append(@, st) ELSE @]
               /\ n_seen' = [n_seen EXCEPT ![n] = r.queue]
               /\ n_propagees' = [n_propagees EXCEPT ![n] = @ \o r.prop]
               /\ n_printed' = [n_printed EXCEPT ![n] =
                                   @ \o SelectSeq(r.read, LAMBDA rd : rd.delivered)]
        /\ n_ri' = [n_ri EXCEPT ![n] = @ + 1]
        /\ UNCHANGED <<n_streams, n_orig, n_w>>
        /\ UNCHANGED <<loopVars, codecVars, queueVars, streamVars>>

\* node n, receive_msgs: propagate for the next propagee, up to the call of
\* broadcast: the partition asks every stream for its peer_addr, the streams
\* of the origin are held back and stand after the others in what propagate
\* will return
NetPropagate ==
    \E n \in Nodes :
        /\ n_pc # <<>> /\ n_pc[n] = "recv" /\ n_ri[n] > Len(n_streams[n])
        /\ n_propagees[n] # <<>>
        /\ \E p \in {Head(n_propagees[n])}, acc \in {n_retained[n]} :
               IF \E i \in 1..Len(acc) : peer_addr_fails(acc[i])
               THEN /\ n_pc' = [n_pc EXCEPT ![n] = "panicked"]
                    /\ UNCHANGED <<n_retained, n_w>>
               ELSE \E rest \in {SelectSeq(acc, LAMBDA st : st.addr # p.origin)} :
                    /\ n_retained' = [n_retained EXCEPT ![n] =
                           rest \o SelectSeq(acc, LAMBDA st : st.addr = p.origin)]
                    /\ n_w' = [n_w EXCEPT ![n] = NetWrites(p.msg, Len(rest))]
                    /\ n_pc' = [n_pc EXCEPT ![n] =
                                   IF rest = <<>> THEN "recv" ELSE "prop"]
        /\ n_propagees' = [n_propagees EXCEPT ![n] = Tail(@)]
        /\ UNCHANGED <<n_streams, n_seen, n_chan, n_printed, n_orig, n_ri>>
        /\ UNCHANGED <<loopVars, codecVars, queueVars, streamVars>>

\* node n: streams = receive_msgs(..), and its loop starts over
NetReturn ==
    \E n \in Nodes :
        /\ n_pc # <<>> /\ n_pc[n] = "recv" /\ n_ri[n] > Len(n_streams[n])
        /\ n_propagees[n] = <<>>
        /\ n_pc' = [n_pc EXCEPT ![n] = "cmd"]
        /\ n_streams' = [n_streams EXCEPT ![n] = n_retained[n]]
        /\ n_retained' = [n_retained EXCEPT ![n] = <<>>]
        /\ n_ri' = [n_ri EXCEPT ![n] = 1]
        /\ UNCHANGED <<n_seen, n_chan, n_printed, n_orig, n_propagees, n_w>>
        /\ UNCHANGED <<loopVars, codecVars, queueVars, streamVars>>

NetNext ==
    \/ NetCmdEmpty \/ NetBroadcast \/ NetWrite
    \/ NetProcessMsg \/ NetPropagate \/ NetReturn
    \/ NetPeerEnds

-----------------------------------------------------------------------------
(* Queue<T>: claims C3 to C6                                               *)

\* the number of items the queue of SpecQueue holds after the pushes so far,
\* when nothing was pushed twice
QKept == Min(Len(q_pushed), q_queue.size)

\* C3: in every reachable state of the event loop, so after each completed
\* push, the dedup cache holds at most N = 16 messages.
CacheAtMostN == Len(seen.elements) <= SEEN_SIZE

\* C3: the cache is full and a push has evicted from it
CacheFullAfterEviction ==
    /\ Len(seen.elements) = SEEN_SIZE
    /\ npush > SEEN_SIZE

\* C4: for a cache of capacity N, after k pushes of pairwise distinct
\* messages, contains is true exactly for the last min(k, N) messages pushed:
\* the cache holds them in the order pushed, and the messages evicted are the
\* ones before them in the order pushed, whatever calls of contains came in
\* between.
ContainsExactlyLastN ==
    Cardinality(QDistinct) = Len(q_pushed) =>
        LET k == Len(q_pushed)
        IN  /\ q_queue.elements = SubSeq(q_pushed, k - QKept + 1, k)
            /\ q_evicted = SubSeq(q_pushed, 1, k - QKept)
            /\ \A i \in 1..(k + 1) :
                  contains(q_queue, MkMsg(i)) <=> (k - QKept < i /\ i <= k)
            /\ q_last.op = "contains" =>
                  (q_last.found <=>
                       \E j \in (k - QKept + 1)..k : q_pushed[j] = q_last.item)

\* C4: N + 1 distinct messages were pushed to the cache of capacity N = 16,
\* and contains has just returned false for the first of them
FirstEvictedRestContained ==
    /\ q_queue.size = SEEN_SIZE
    /\ Len(q_pushed) = SEEN_SIZE + 1
    /\ Cardinality(QDistinct) = Len(q_pushed)
    /\ q_last.op = "contains" /\ q_last.item = q_pushed[1] /\ ~q_last.found
    /\ \A i \in 2..Len(q_pushed) : contains(q_queue, q_pushed[i])

\* C5: push(item) puts item at the back; it returns the element that was at
\* the front exactly when the queue held capacity-many elements before the
\* call, and that element is gone; otherwise it returns None and the queue
\* keeps what it held.
PushReturnsFrontWhenFull ==
    q_last.op = "push" =>
        LET full == Len(q_last.pre) = q_queue.size
        IN  /\ q_queue.elements # <<>>
            /\ q_queue.elements[Len(q_queue.elements)] = q_last.item
            /\ q_last.ret = IF full THEN Some(Head(q_last.pre)) ELSE None
            /\ q_queue.elements =
                   (IF full THEN Tail(q_last.pre) ELSE q_last.pre) \o <<q_last.item>>

\* C5: a push to a full queue of capacity above 1 has returned its front
PushEvictedFront ==
    /\ q_last.op = "push"
    /\ q_queue.size > 1
    /\ Len(q_last.pre) = q_queue.size
    /\ q_last.ret = Some(Head(q_last.pre))

\* C6, as amended: pushing the same message twice in a row into an empty
\* queue of capacity 2 or more leaves two copies in it (size 2) and evicts
\* nothing; with capacity 1 the second push evicts the first copy.  push
\* inserts whether the queue holds the item or not.
PushTwiceHoldsTwo ==
    (Len(q_pushed) = 2 /\ q_pushed[1] = q_pushed[2]) =>
        IF q_queue.size >= 2
        THEN q_queue.elements = q_pushed /\ q_evicted = <<>>
        ELSE q_queue.elements = <<q_pushed[2]>> /\ q_evicted = <<q_pushed[1]>>

\* C6: the same message was pushed twice to the empty cache of capacity 16
PushedSameTwice ==
    /\ q_queue.size = SEEN_SIZE
    /\ Len(q_pushed) = 2 /\ q_pushed[1] = q_pushed[2]
    /\ q_last.op = "push"

\* C6 as the specification states it: pushing the same message twice in a
\* row into an empty cache leaves its size at 1 and evicts nothing.
PushTwiceSizeOne ==
    (Len(q_pushed) = 2 /\ q_pushed[1] = q_pushed[2]) =>
        (Len(q_queue.elements) = 1 /\ q_evicted = <<>>)

-----------------------------------------------------------------------------
(* The codec: claims C7 to C10                                             *)

\* the largest text a frame has room for
MaxText == CAPACITY - SEP_SIZE - UUID_SIZE

\* C7 as the specification states it: for every text t of at most 111 bytes
\* and every id i, decoding the frame that encodes the message (t, i) yields
\* the message (t, i).
RoundTrip ==
    (c_pc = "decoded" /\ c_in.flow = "local" /\ Len(c_in.text) <= MaxText) =>
        c_back = Ok([text |-> c_in.text, uuid |-> c_in.u2])

\* C8 as the specification states it: creating a message from a text t
\* returns the error value for every t longer than 111 bytes and a message
\* with text t and the fresh id for every t of at most 111 bytes, whatever
\* ids are generated.
CreateErrOrOk ==
    (c_pc = "made" /\ c_in.flow = "local") =>
        IF Len(c_in.text) > MaxText
        THEN c_msg = Err("TryFromStringToMsgError")
        ELSE c_msg = Ok([text |-> c_in.text, uuid |-> c_in.u2])

\* the messages the node holds: the cache and the propagees
NodeMsgs ==
    {seen.elements[i] : i \in 1..Len(seen.elements)}
        \cup {propagees[i].msg : i \in 1..Len(propagees)}

\* C9 as the specification states it: every message that exists in the
\* node, created from a Broadcast command or decoded from a received frame,
\* satisfies len(content) + 1 + 16 <= 128.
MsgWithinCapacity ==
    \A m \in NodeMsgs : Len(m.text) + SEP_SIZE + UUID_SIZE <= CAPACITY

\* C10 as the specification states it: for every message with content of
\* length L the encoded frame has exactly 128 bytes: the content in [0, L),
\* 0x00 at L, the 16 bytes of the id in [L+1, L+17), 0x00 from L+17 to 127.
FrameLayout ==
    c_pc = "encoded" =>
        LET m == c_msg.msg
            L == Len(m.text)
            f == c_bytes.bytes
        IN  /\ c_bytes.tag = "Ok"
            /\ Len(f) = CAPACITY
            /\ \A i \in 1..L : f[i] = m.text[i]
            /\ f[L + 1] = 0
            /\ \A i \in 1..UUID_SIZE : f[L + SEP_SIZE + i] = m.uuid[i]
            /\ \A i \in (L + SEP_SIZE + UUID_SIZE + 1)..CAPACITY : f[i] = 0

-----------------------------------------------------------------------------
(* The event loop: claims C1 and C2                                        *)

\* the frames the call wrote to the stream
WritesTo(call, cid) == SelectSeq(call.writes, LAMBDA w : w.cid = cid)

\* C1 as the specification states it: for every call propagate(peers, msg,
\* origin), no frame is written to a peer whose address is origin, and
\* exactly one frame, carrying the content and the id of msg, is written to
\* every other peer of the set.
PropagateWritesOnceToOthers ==
    \A i \in 1..Len(lastCall) :
        LET call == lastCall[i]
        IN  call.fn = "propagate" =>
                \A j \in 1..Len(call.peers) :
                    LET peer == call.peers[j]
                        ws == WritesTo(call, peer.cid)
                    IN  IF peer.addr = call.origin
                        THEN ws = <<>>
                        ELSE /\ Len(ws) = 1
                             /\ try_from_array(ws[1].frame) = Ok(call.msg)

\* C2, as amended: a received frame that decodes to a message, text and id,
\* which the dedup cache holds at that moment is neither printed nor
\* propagated, whichever peer it arrives from; a frame whose message the
\* cache does not hold, be it new or evicted, is printed, pushed to the
\* cache and handed on for propagation.
CachedNeitherPrintedNorPropagated ==
    \A i \in 1..Len(lastRead) :
        LET rd == lastRead[i]
            held == \E j \in 1..Len(rd.pre) : rd.pre[j] = rd.msg
        IN  IF held
            THEN ~rd.delivered /\ rd.prop = None /\ seen.elements = rd.pre
            ELSE /\ rd.delivered
                 /\ rd.prop = Some([msg |-> rd.msg, origin |-> rd.addr])
                 /\ contains(seen, rd.msg)

\* C2: a frame of a message the cache holds has come from the second peer,
\* after the cache had evicted, and was dropped
CachedFrameFromOtherPeer ==
    /\ lastRead # None
    /\ lastRead[1].cid = 2
    /\ \E j \in 1..Len(lastRead[1].pre) : lastRead[1].pre[j] = lastRead[1].msg
    /\ ~lastRead[1].delivered
    /\ npush > SEEN_SIZE

\* C2 as the specification states it: a received frame whose message id this
\* node has seen before, accepted from a peer or originated locally, is
\* neither printed nor propagated.
SeenIdNeverDeliveredAgain ==
    \A i \in 1..Len(lastRead) :
        lastRead[i].known => (~lastRead[i].delivered /\ lastRead[i].prop = None)

-----------------------------------------------------------------------------
(* The commands and the reads of the event loop: claims C11 to C18         *)

\* the ids of the sockets of a peer set
Cids(strs) == {strs[i].cid : i \in 1..Len(strs)}

\* the call wrote exactly one frame to the peer, and it decodes to msg
WroteOnce(call, peer) ==
    LET ws == WritesTo(call, peer.cid)
    IN  Len(ws) = 1 /\ try_from_array(ws[1].frame) = Ok(call.msg)

\* C11 as the specification states it: applying Broadcast(text), with a text
\* that fits, creates one new message with that text, records it in the
\* dedup cache, and writes exactly one frame of it to every peer of the peer
\* set, none excluded.
BroadcastReachesEveryPeer ==
    (lastStep.name = "broadcast" /\ Len(lastStep.text) <= MaxText) =>
        /\ lastCall # None
        /\ LET call == lastCall[1]
           IN  /\ call.fn = "broadcast"
               /\ call.msg.text = lastStep.text
               /\ ~contains(lastStep.seen, call.msg)
               /\ contains(seen, call.msg)
               /\ call.peers = lastStep.streams
               /\ \A i \in 1..Len(call.peers) : WroteOnce(call, call.peers[i])

\* C12: when a read of peer A yields end-of-stream, A is not retained by
\* that iteration, and from then on A is in no peer set and no frame, of a
\* Broadcast or of a propagation, is written to A.
ClosedPeerNeverWritten ==
    /\ Cids(retained) \cap closed = {}
    /\ pc = "recv" => \A i \in ri..Len(streams) : streams[i].cid \notin closed
    /\ pc \in {"accept", "cmd"} => Cids(streams) \cap closed = {}
    /\ \A i \in 1..Len(lastCall) :
          /\ Cids(lastCall[i].peers) \cap closed = {}
          /\ \A j \in 1..Len(lastCall[i].writes) :
                lastCall[i].writes[j].cid \notin closed
    /\ (lastStep.name = "read" /\ lastStep.kind = "eof") =>
          lastStep.streams[ri - 1].cid \in closed

\* C12: after the read of one peer yielded end-of-stream, a frame was
\* written to another peer
WroteAfterPeerClosed ==
    /\ closed # {}
    /\ lastCall # None
    /\ lastCall[1].writes # <<>>

\* C13 as the specification states it: a Broadcast command whose text has
\* more than 111 bytes is rejected on its own: the event loop keeps running,
\* the peer set and the dedup cache are unchanged, no frame is written.
TooLargeBroadcastRejected ==
    (lastStep.name = "broadcast" /\ Len(lastStep.text) > MaxText) =>
        /\ Running
        /\ streams = lastStep.streams
        /\ seen = lastStep.seen
        /\ lastCall = None

\* C14 as the specification states it: decoding is total over 128-byte
\* blocks.  It returns MissingSeparator exactly when the block holds no 0x00
\* byte; when the block holds one it returns a message, the content decoded
\* from the bytes before the first 0x00 and the id the 16 bytes after it,
\* wherever that first 0x00 is, and never aborts.
DecodeTotal ==
    (c_pc = "made" /\ c_in.flow = "remote") =>
        LET blk == c_in.block
            sep == Position0(blk)
        IN  /\ c_msg.tag \in {"Ok", "Err"}
            /\ (c_msg = Err("MissingSep")) <=> (\A i \in 1..Len(blk) : blk[i] # 0)
            /\ (\E i \in 1..Len(blk) : blk[i] = 0) =>
                  /\ c_msg.tag = "Ok"
                  /\ c_msg.msg.text = from_utf8_lossy(SubSeq(blk, 1, sep))
                  /\ \A i \in 1..UUID_SIZE :
                        sep + SEP_SIZE + i <= Len(blk) /\
                        c_msg.msg.uuid[i] = blk[sep + SEP_SIZE + i]

\* C15 as the specification states it: every connection that is in the
\* acceptor queue when step 1 begins is in the peer set before the command
\* step of that iteration begins, however many are queued.
AcceptDrainsQueue ==
    lastStep.name = "accept" => Cids(lastStep.in_comms) \subseteq Cids(streams)

\* the stream with the id, in a peer set that holds it
StreamOf(strs, cid) == CHOOSE st \in {strs[i] : i \in 1..Len(strs)} : st.cid = cid

\* C16 as the specification states it: the steps of an iteration happen in
\* the order accept, commands, peer reads, propagate.  A Broadcast applied in
\* an iteration is written to the connection accepted in that iteration, and
\* before any peer is read in it; a propagation writes only to peers the
\* read step of its iteration retained.
IterationOrder ==
    /\ (lastStep.name = "broadcast" /\ Len(lastStep.text) <= MaxText) =>
          /\ lastStep.retained = <<>> /\ ri = 1
          /\ accepted # None =>
                /\ lastCall # None
                /\ WroteOnce(lastCall[1], StreamOf(lastStep.streams, accepted[1]))
    /\ lastStep.name = "propagate" =>
          /\ ri > Len(streams)
          /\ lastCall # None
          /\ Cids(lastCall[1].peers) \subseteq Cids(streams) \ closed
          /\ \A j \in 1..Len(lastCall[1].writes) :
                lastCall[1].writes[j].cid \in Cids(lastCall[1].peers)

\* C17 as the specification states it: applying a Disconnect command shuts
\* down every connection of the peer set in both directions and adds,
\* removes and reorders no peer; a shut-down peer leaves the peer set only
\* when a later read of it yields end-of-stream.
DisconnectShutsAllDown ==
    /\ lastStep.name = "disconnect" =>
          /\ Running
          /\ Len(streams) = Len(lastStep.streams)
          /\ \A i \in 1..Len(streams) :
                streams[i] = [lastStep.streams[i] EXCEPT !.shutdown = TRUE]
    /\ (lastStep.name = "read" /\ Running /\ lastStep.streams[ri - 1].shutdown) =>
          (lastStep.kind = "eof" <=> retained = lastStep.retained)

\* the peers of the sequence that no read has closed, in order
NotClosed(strs) == SelectSeq(strs, LAMBDA st : st.cid \notin closed)

\* C18 as the specification states it: a peer leaves the peer set only
\* through a read that yields end-of-stream.  The streams read so far in an
\* iteration are retained, in order and once each, except those whose read
\* yielded end-of-stream, so a would-block read, a read of a duplicate and a
\* read of a new message keep the peer; a would-block read leaves the cache
\* as it is and produces no message; every propagate call in which no write
\* fails returns the connections it was given, each once; the accept and
\* command steps drop no peer; and the peer set of the next iteration is
\* what receive_msgs returned.
PeersLeaveOnlyOnEof ==
    /\ (lastStep.name = "read" /\ Running) =>
          /\ retained = NotClosed(SubSeq(streams, 1, ri - 1))
          /\ lastStep.kind = "eof" <=> lastStep.streams[ri - 1].cid \in closed
          /\ lastStep.kind = "wouldblock" =>
                /\ retained = Append(lastStep.retained, lastStep.streams[ri - 1])
                /\ seen = lastStep.seen
                /\ propagees = lastStep.propagees
                /\ lastRead = None
    /\ (lastStep.name = "read" /\ (lastStep.kind = "wouldblock" \/ lastRead # None)) =>
          Running
    /\ (lastStep.name = "propagate" /\ lastCall[1].why # "write") =>
          /\ Running
          /\ Len(retained) = Len(lastStep.retained)
          /\ Cids(retained) = Cids(lastStep.retained)
          /\ Cardinality(Cids(retained)) = Len(retained)
    /\ (lastStep.name \in {"accept", "empty", "connect", "broadcast", "disconnect"}
            /\ Running) =>
          Cids(lastStep.streams) \subseteq Cids(streams)
    /\ lastStep.name = "return" => streams = lastStep.retained

-----------------------------------------------------------------------------
(* Streams and networks: claims C19 and C20                                *)

\* C20 as the specification states it: on a connection whose reads may
\* return any number of bytes from 1 to 128, the sequence of messages the
\* node decodes from the peer is the sequence of messages the peer encoded
\* and wrote: a prefix of it while bytes are unread, all of it when none is.
DecodedAreSent ==
    w_pc # "idle" =>
        /\ Len(w_decoded) <= Len(w_sent)
        /\ \A i \in 1..Len(w_decoded) : w_decoded[i] = w_sent[i]
        /\ w_wire = <<>> => Len(w_decoded) = Len(w_sent)

\* C19 as the specification states it, its safety half: in a network of
\* nodes connected in any topology, cycles included, where no connection
\* fails, every node prints each message at most once, and a node that is
\* the only one to have broadcast prints nothing, since every message that
\* reaches it is its own coming back.
FloodingPrintsOnceNotAtOrigin ==
    (n_pc # <<>> /\ \A n \in Nodes : n_pc[n] # "panicked") =>
        \A n \in Nodes :
            /\ \A i, j \in 1..Len(n_printed[n]) :
                   i # j => n_printed[n][i].msg # n_printed[n][j].msg
            /\ (\A m \in Nodes \ {n} : n_orig[m] = <<>>) => n_printed[n] = <<>>

-----------------------------------------------------------------------------
(* The specifications                                                      *)

Init ==
    /\ \E e \in {FullEnv, WideEnv} : LoopInit(e)
    /\ CodecIdle /\ QueueIdle /\ StreamIdle /\ NetIdle
Next == LoopNext
Spec == Init /\ [][Next]_vars

InitDedup == LoopInit(DedupEnv) /\ CodecIdle /\ QueueIdle /\ StreamIdle /\ NetIdle
NextDedup == LoopSteps
SpecDedup == InitDedup /\ [][NextDedup]_vars

InitCodec == CodecInit /\ LoopIdle /\ QueueIdle /\ StreamIdle /\ NetIdle
NextCodec == CodecNext
SpecCodec == InitCodec /\ [][NextCodec]_vars

InitQueue == QueueInit /\ LoopIdle /\ CodecIdle /\ StreamIdle /\ NetIdle
NextQueue == QueueNext
SpecQueue == InitQueue /\ [][NextQueue]_vars

InitStream == StreamInit /\ LoopIdle /\ CodecIdle /\ QueueIdle /\ NetIdle
NextStream == StreamNext
SpecStream == InitStream /\ [][NextStream]_vars

InitNet == NetInit /\ LoopIdle /\ CodecIdle /\ QueueIdle /\ StreamIdle
NextNet == NetNext
SpecNet == InitNet /\ [][NextNet]_vars

=============================================================================
